---- MODULE Spec2Model ----
(***************************************************************************)
(* Walking Stories: route segmentation, checkpoint-triggered narration    *)
(* sequencing and trip tracking (App.jsx, LeafletMapView.jsx,             *)
(* RouteSelector.jsx, InteractiveMapSelector.jsx, leafletMaps.js,         *)
(* database.js).                                                          *)
(*                                                                         *)
(* Conventions of the model                                                *)
(*  - null/undefined is the empty sequence None, a present value x is      *)
(*    Some(x) = <<x>>.                                                     *)
(*  - All sample and route points lie on one meridian; latitudes are held  *)
(*    in metres of arc, so the haversine distance is |lat2 - lat1|.        *)
(*  - Kilometre quantities (route.distance, totalDistance) are held as     *)
(*    integer thousandths of a kilometre.                                  *)
(*  - The clock counts milliseconds and advances in whole minutes, so the  *)
(*    division by 1000 and by 60 of the duration computation is exact.     *)
(*  - React state setters are applied to the state variables at once; the  *)
(*    set `pending` records what changed since the last commit, and the    *)
(*    action Render is one commit of the tree with its passive effects.    *)
(*    Platform callbacks (geolocation, IndexedDB, network) may run before  *)
(*    a pending commit; user gestures act on a committed screen.           *)
(***************************************************************************)
EXTENDS Integers, Sequences, FiniteSets, TLC

\* ------------------------------------------------------------------ bounds
MaxPoints == 20
MaxWalks == 2
MaxClock == 1
MaxSamples == 2
MaxSaves == 2
MaxPresses == 1
MaxUtterances == 3
PointSpacing == 50

\* ------------------------------------------------------- program constants
ProximityThreshold == 50
MsPerMinute == 60000

\* ----------------------------------------------------------------- helpers
None == <<>>
Some(x) == <<x>>
IsSome(o) == Len(o) = 1
Get(o) == o[1]

Abs(x) == IF x < 0 THEN -x ELSE x
Range(s) == {s[i] : i \in 1..Len(s)}
Includes(s, x) == \E i \in 1..Len(s) : s[i] = x

\* ------------------------------------------------------ geospatial utility
\* calculateDistance: metres between two points of one meridian.
calculateDistance(lat1, lon1, lat2, lon2) == Abs(lat2 - lat1)

\* The provider's geometry of a route with totalPoints evenly spaced points:
\* GeoJSON coordinates are [lng, lat] pairs.
Coordinates(totalPoints) == [k \in 1..totalPoints |-> <<0, (k - 1) * PointSpacing>>]

\* ------------------------------------------------------------------ planner
\* The for loop of generateCheckpoints, i = from..numCheckpoints.
RECURSIVE CheckpointLoop(_, _, _, _, _)
CheckpointLoop(coordinates, interval, numCheckpoints, i, acc) ==
    IF i > numCheckpoints THEN acc
    ELSE LET pointIndex == i * interval
             totalPoints == Len(coordinates)
         IN IF pointIndex < totalPoints
            THEN LET c == coordinates[pointIndex + 1]
                     lng == c[1]
                     lat == c[2]
                 IN CheckpointLoop(coordinates, interval, numCheckpoints, i + 1,
                        Append(acc, [position |-> [lat |-> lat, lng |-> lng],
                                     description |-> i,
                                     index |-> i]))
            ELSE CheckpointLoop(coordinates, interval, numCheckpoints, i + 1, acc)

generateCheckpointsOffByOne(r, numCheckpoints) ==
    IF ~IsSome(r.geometry) THEN <<>>
    ELSE LET coordinates == Get(r.geometry)
             interval == Len(coordinates) \div numCheckpoints
         IN CheckpointLoop(coordinates, interval, numCheckpoints, 1, <<>>)

\* generateCheckpoints(route, numCheckpoints): description "Checkpoint i" is
\* held as the number i.
generateCheckpoints(r, numCheckpoints) ==
    IF ~IsSome(r.geometry) THEN <<>>
    ELSE LET coordinates == Get(r.geometry)
             totalPoints == Len(coordinates)
             interval == totalPoints \div (numCheckpoints + 1)
         IN CheckpointLoop(coordinates, interval, numCheckpoints, 1, <<>>)


\* -------------------------------------------------------------------- story
\* Texts are held as sequences of character codes.  Story objects are
\* [title, chapters] with chapters a sequence of chapter records.

\* generateFallbackStory with "index < locations.length" in its forEach.
generateFallbackStoryToTheEnd(origin, destination, cps) ==
    LET locations == <<origin>> \o [k \in 1..Len(cps) |-> cps[k].description]
                                \o <<destination>>
    IN [title |-> "Your Walking Journey",
        chapters |-> [index \in 1..Len(locations) |->
                         [chapterNumber |-> index,
                          location |-> locations[index],
                          towards |-> IF index < Len(locations)
                                      THEN locations[index + 1] ELSE destination,
                          estimatedReadingTime |-> 3]]]

\* generateFallbackStory(origin, destination, checkpoints): one chapter for
\* every location but the last; the chapter's title and content name
\* locations[index + 1] (towards) and its content names location.
generateFallbackStory(origin, destination, cps) ==
    LET locations == <<origin>> \o [k \in 1..Len(cps) |-> cps[k].description]
                                \o <<destination>>
    IN [title |-> "Your Walking Journey",
        chapters |-> [index \in 1..(Len(locations) - 1) |->
                         [chapterNumber |-> index,
                          location |-> locations[index],
                          towards |-> locations[index + 1],
                          estimatedReadingTime |-> 3]]]

\* parseTextToChapters(text, numChapters, chapterDuration): numChapters
\* chapters whatever the text.
parseTextToChapters(numChapters) ==
    [title |-> "Your Walking Adventure",
     chapters |-> [i \in 1..numChapters |-> [chapterNumber |-> i]]]

\* generateStory(origin, destination, checkpoints, estimatedDuration) with
\* apiKey set or not and the provider's answer response: "error" (the
\* request fails or the answer has no candidate text), "json" (the text
\* holds a JSON object, returned as parsed) or "text" (anything else).
\* ok = FALSE is a throw.
generateStory(apiKey, response, cps) ==
    IF ~apiKey THEN [ok |-> FALSE]
    ELSE LET numChapters == Len(cps) + 1
         IN CASE response.kind = "error" -> [ok |-> FALSE]
              [] response.kind = "json" -> [ok |-> TRUE, story |-> response.story]
              [] OTHER -> [ok |-> TRUE, story |-> parseTextToChapters(numChapters)]

\* btoa(key) throws on a character code above 255.
Latin1(text) == \A k \in 1..Len(text) : text[k] <= 255

\* generateRouteKey(origin, destination, checkpoints): btoa of
\* "origin-destination-length"; the key is held as the triple it encodes.
generateRouteKey(origin, destination, cps) ==
    IF Latin1(origin) /\ Latin1(destination)
    THEN [ok |-> TRUE, key |-> <<origin, destination, Len(cps)>>]
    ELSE [ok |-> FALSE]

\* The story part of handleSubmit: generateRouteKey (outside the story
\* try/catch: ok = FALSE is its throw, caught with the route errors), then
\* getStory (lookup: "fails", "miss" or "hit" with the cached story), then
\* generateStory and saveStory (saved = FALSE is its rejection) in one try
\* whose catch takes the fallback story.
handleSubmitStory(origin, destination, cps, lookup, apiKey, response, saved) ==
    LET routeKey == generateRouteKey(origin, destination, cps)
        fallback == generateFallbackStory(origin, destination, cps)
    IN IF ~routeKey.ok THEN [ok |-> FALSE]
       ELSE IF lookup.kind = "fails" THEN [ok |-> TRUE, story |-> fallback]
       ELSE IF lookup.kind = "hit" THEN [ok |-> TRUE, story |-> lookup.story]
       ELSE LET generated == generateStory(apiKey, response, cps)
            IN IF generated.ok /\ saved
               THEN [ok |-> TRUE, story |-> generated.story]
               ELSE [ok |-> TRUE, story |-> fallback]

\* -------------------------------------------------------------------- state
VARIABLES
    \* App.jsx useState
    currentScreen, route, story, currentPosition, checkpoints,
    completedCheckpoints, currentChapter, tripData, isLoading, error,
    \* RouteSelector.handleSubmit in flight (None, or Some of its inputs)
    planning,
    \* LeafletMapView instance: useState / useRef
    mounted, inst, isTracking, tripStartTime, totalDistance, watchIdRef,
    lastPositionRef,
    \* React: what changed since the last commit; the tree was torn down
    pending, crashed,
    \* platform: geolocation watches, wall clock, IndexedDB "trips" store and
    \* the saveTrip calls in flight
    watches, nextWatchId, clock, saves, trips,
    \* observation: the checkpoint-reached events of the last commit; per
    \* LeafletMapView instance the number of saveTrip calls (attempts), of
    \* records added to the store (stored) and of trip-completed events
    \* (emitted) and of presses of the player's chapter buttons (presses);
    \* the number of walks started; and the position samples
    \* delivered so far, each with the instance that received it
    cpEvents, walkLog, walks, samples,
    \* planner harness: generateCheckpoints applied to a drawn input
    planRoute, planN, planOut,
    \* audio.js: the AudioService singleton (isPlaying, isPaused,
    \* currentUtterance) and window.speechSynthesis behind it
    audioService, synthesis,
    \* AudioPlayer: its useState isPlaying and isPaused, and the log of what
    \* it handed to audioService.speak (which chapter, and whether the
    \* auto-play effect or the play button did)
    player

appVars == <<currentScreen, route, story, currentPosition, checkpoints,
             completedCheckpoints, currentChapter, tripData, isLoading, error>>
viewVars == <<mounted, inst, isTracking, tripStartTime, totalDistance,
              watchIdRef, lastPositionRef>>
platformVars == <<watches, nextWatchId, clock, saves, trips>>
logVars == <<cpEvents, walkLog, walks, samples>>
plannerVars == <<planRoute, planN, planOut>>
audioVars == <<audioService, synthesis, player>>
vars == <<appVars, planning, viewVars, pending, crashed, platformVars, logVars,
          plannerVars, audioVars>>

\* ------------------------------------------------------------ input domains
\* numAutoCheckpoints: the <select> of RouteSelector offers 2..5.
CheckpointCountOptions == 2..5
\* What the walks of the model draw from.
WalkCheckpointCounts == {4}
WalkRoutePoints == {0, 6}
SampleLats == {75, 250}
\* A generated story may carry any number of chapters; besides the
\* well-formed count the model draws these.
MalformedChapterCounts == {2}

\* What the form and the external calls of the story harness draw from:
\* the origin "Hue" or "Huế" (with a character above 255), the
\* destination "Ha", the stories a model answer may carry for a walk of n
\* checkpoints (the requested n + 1 chapters, or 2), the answers of the
\* provider, and the outcomes of the cache lookup.
OriginInputs == {<<72, 117, 101>>, <<72, 117, 7871>>}
DestinationInput == <<72, 97>>
ModelStories(n) ==
    {[title |-> "model", chapters |-> [i \in 1..c |-> [chapterNumber |-> i]]] :
        c \in {n + 1, 2}}
Responses(n) ==
    {[kind |-> "error"], [kind |-> "text"]}
        \cup {[kind |-> "json", story |-> st] : st \in ModelStories(n)}
Lookups(n) ==
    {[kind |-> "fails"], [kind |-> "miss"]}
        \cup {[kind |-> "hit", stored |-> r] : r \in Responses(n) \ {[kind |-> "error"]}}

\* getStory(routeKey): a hit returns the story an earlier handleSubmit
\* generated and saved under the same key, that is for as many checkpoints,
\* from the provider's answer lookup.stored.
getStory(lookup, cps) ==
    IF lookup.kind = "hit"
    THEN [kind |-> "hit", story |-> generateStory(TRUE, lookup.stored, cps).story]
    ELSE lookup

\* The geocoded destination of the walks of the model.
Destination == [lat |-> 5 * PointSpacing, lng |-> 0]

\* calculateWalkingRoute's result when the provider answers with a geometry
\* of totalPoints points: destCoords comes from the geocoder, not from the
\* geometry.
RouteResult(totalPoints) ==
    [geometry |-> Some(Coordinates(totalPoints)),
     distance |-> Destination.lat,
     duration |-> totalPoints,
     destCoords |-> Some(Destination)]

\* startRoute's mock route data: no geometry, no destCoords, and the two
\* selected LatLng objects themselves as checkpoints (no position field).
MockRouteData ==
    [route |-> [geometry |-> None, distance |-> 2500, duration |-> 30,
                destCoords |-> None],
     checkpoints |-> <<[lat |-> 0, lng |-> 0], [lat |-> 250, lng |-> 0]>>,
     story |-> Some([chapters |-> 2])]

\* ------------------------------------------------------------- sequencer
handleCheckpointReachedUnguarded(renderCompleted, st, s, checkpointIndex) ==
    [completed |-> Append(st.completed, checkpointIndex),
     chapter |-> LET nextChapter == checkpointIndex + 1
                 IN IF IsSome(s) /\ nextChapter < Get(s).chapters
                    THEN nextChapter ELSE st.chapter]

handleCheckpointReachedClamped(renderCompleted, st, s, checkpointIndex) ==
    IF ~Includes(renderCompleted, checkpointIndex)
    THEN [completed |-> Append(st.completed, checkpointIndex),
          chapter |-> LET nextChapter == checkpointIndex + 1
                      IN IF IsSome(s) /\ nextChapter < Get(s).chapters
                            /\ nextChapter > st.chapter
                         THEN nextChapter ELSE st.chapter]
    ELSE st

handleCheckpointReachedRejecting(renderCompleted, st, s, checkpointIndex) ==
    IF ~Includes(renderCompleted, checkpointIndex)
       /\ IsSome(s) /\ checkpointIndex + 1 < Get(s).chapters
    THEN [completed |-> Append(st.completed, checkpointIndex),
          chapter |-> checkpointIndex + 1]
    ELSE st

\* handleCheckpointReached(checkpointIndex) of the render whose
\* completedCheckpoints is renderCompleted, applied to the queued state st
\* (setCompletedCheckpoints takes an updater, setCurrentChapter a value).
handleCheckpointReached(renderCompleted, st, s, checkpointIndex) ==
    IF ~Includes(renderCompleted, checkpointIndex)
    THEN [completed |-> Append(st.completed, checkpointIndex),
          chapter |-> LET nextChapter == checkpointIndex + 1
                      IN IF IsSome(s) /\ nextChapter < Get(s).chapters
                         THEN nextChapter ELSE st.chapter]
    ELSE st

\* ---------------------------------------------------------------- tracker
WithinThresholdExclusive(distance) == distance < ProximityThreshold

\* "if (distance <= 50)"
WithinThreshold(distance) == distance <= ProximityThreshold

SkipCompletedNever(renderCompleted, index) == FALSE

\* "if (completedCheckpoints.includes(index)) return;"
SkipCompleted(renderCompleted, index) == Includes(renderCompleted, index)

\* checkpoints.forEach((checkpoint, index) => ...) of the proximity effect:
\* acc.fired are the indices handed to onCheckpointReached, acc.st the
\* sequencer state they leave.
RECURSIVE CheckpointProximity(_, _, _, _, _, _)
CheckpointProximity(pos, cps, renderCompleted, s, k, acc) ==
    IF k > Len(cps) THEN acc
    ELSE LET index == k - 1
         IN IF SkipCompleted(renderCompleted, index)
            THEN CheckpointProximity(pos, cps, renderCompleted, s, k + 1, acc)
            ELSE LET distance == calculateDistance(pos.lat, pos.lng,
                                     cps[k].position.lat, cps[k].position.lng)
                 IN IF WithinThreshold(distance)
                    THEN CheckpointProximity(pos, cps, renderCompleted, s, k + 1,
                             [fired |-> Append(acc.fired, index),
                              st |-> handleCheckpointReached(renderCompleted,
                                         acc.st, s, index)])
                    ELSE CheckpointProximity(pos, cps, renderCompleted, s, k + 1, acc)

\* "route && (completedCheckpoints.length === checkpoints.length ||
\*            calculateDistance(currentPosition, route.destCoords) <= 50)"
\* (route.destCoords is read only when the lengths differ).
ReachedDestination(pos, r, cps, renderCompleted) ==
    /\ IsSome(r)
    /\ \/ Len(renderCompleted) = Len(cps)
       \/ /\ IsSome(Get(r).destCoords)
          /\ WithinThreshold(calculateDistance(pos.lat, pos.lng,
                 Get(Get(r).destCoords).lat, Get(Get(r).destCoords).lng))

\* Math.round(totalDistance * 50), totalDistance in thousandths of a km.
EstimatedCalories(total) == (total * 50 + 500) \div 1000

\* The tripSummary object literal of completeTrip.
completeTripSummary(start, now, r, total, renderCompleted, cps) ==
    [startTime |-> start,
     endTime |-> now,
     estimatedDistance |-> IF IsSome(r) THEN Get(r).distance ELSE 0,
     actualDistance |-> total,
     estimatedDuration |-> IF IsSome(r) THEN Get(r).duration ELSE 0,
     actualDuration |-> ((now - start) \div 1000) \div 60,
     checkpointsCompleted |-> Len(renderCompleted),
     totalCheckpoints |-> Len(cps),
     estimatedCalories |-> EstimatedCalories(total)]

handleEndTripSummaryAllDone(startOpt, now, r, total, renderCompleted, cps) ==
    [startTime |-> IF IsSome(startOpt) THEN Get(startOpt) ELSE now,
     endTime |-> now,
     estimatedDistance |-> IF IsSome(r) THEN Get(r).distance ELSE 0,
     actualDistance |-> total,
     estimatedDuration |-> IF IsSome(r) THEN Get(r).duration ELSE 0,
     actualDuration |-> IF IsSome(startOpt)
                        THEN ((now - Get(startOpt)) \div 1000) \div 60 ELSE 0,
     checkpointsCompleted |-> Len(cps),
     totalCheckpoints |-> Len(cps),
     estimatedCalories |-> EstimatedCalories(total)]

\* The tripSummary object literal of handleEndTrip.
handleEndTripSummary(startOpt, now, r, total, renderCompleted, cps) ==
    [startTime |-> IF IsSome(startOpt) THEN Get(startOpt) ELSE now,
     endTime |-> now,
     estimatedDistance |-> IF IsSome(r) THEN Get(r).distance ELSE 0,
     actualDistance |-> total,
     estimatedDuration |-> IF IsSome(r) THEN Get(r).duration ELSE 0,
     actualDuration |-> IF IsSome(startOpt)
                        THEN ((now - Get(startOpt)) \div 1000) \div 60 ELSE 0,
     checkpointsCompleted |-> Len(renderCompleted),
     totalCheckpoints |-> Len(cps),
     estimatedCalories |-> EstimatedCalories(total)]

\* What one run of the proximity effect does, for the render whose local
\* state is (startOpt, total): the checkpoint-reached calls in order, the
\* sequencer state they queue, and the summary completeTrip hands to saveTrip
\* (None when completeTrip is not called or returns on "!tripStartTime").
ProximityEffect(startOpt, total) ==
    LET idle == [fired |-> <<>>,
                 st |-> [completed |-> completedCheckpoints,
                         chapter |-> currentChapter],
                 summary |-> None]
    IN IF ~IsSome(currentPosition) \/ Len(checkpoints) = 0 THEN idle
       ELSE LET pos == Get(currentPosition)
                loop == CheckpointProximity(pos, checkpoints, completedCheckpoints,
                            story, 1, [fired |-> <<>>, st |-> idle.st])
            IN [fired |-> loop.fired,
                st |-> loop.st,
                summary |-> IF /\ ReachedDestination(pos, route, checkpoints,
                                                     completedCheckpoints)
                               /\ IsSome(startOpt)
                            THEN Some(completeTripSummary(Get(startOpt), clock, route,
                                         total, completedCheckpoints, checkpoints))
                            ELSE None]

NoEffect ==
    [fired |-> <<>>,
     st |-> [completed |-> completedCheckpoints, chapter |-> currentChapter],
     summary |-> None]

\* "!isLoading && currentScreen === 'walking' && route" of App's JSX.
ShowsMapView == ~isLoading /\ currentScreen = "walking" /\ IsSome(route)

\* LeafletMapView's JSX reads checkpoint.position.lat of every checkpoint.
RenderThrows == \E k \in 1..Len(checkpoints) : "position" \notin DOMAIN checkpoints[k]

\* ------------------------------------------------------------ audio service
\* The AudioService after its constructor, and after stop(), onend, onerror.
IdleService == [isPlaying |-> FALSE, isPaused |-> FALSE, currentUtterance |-> None]

\* window.speechSynthesis: the utterance queue (its head is the one spoken
\* once started), whether the engine is paused, whether the spoken
\* utterance was told so (its pause event fired), the utterances removed by
\* cancel() whose closing event is still to be dispatched, and the number
\* of utterances made so far.
IdleSynthesis ==
    [queue |-> <<>>, started |-> FALSE, paused |-> FALSE, pauseSeen |-> FALSE,
     cancelled |-> {}, made |-> 0]

\* speechSynthesis.cancel(): every utterance leaves the queue.
cancel(y) ==
    [y EXCEPT !.queue = <<>>, !.started = FALSE, !.pauseSeen = FALSE,
              !.cancelled = @ \cup Range(y.queue)]

\* AudioService.stop()
stop(a, y) ==
    IF a.isPlaying
    THEN [service |-> IdleService, synthesis |-> cancel(y), result |-> TRUE]
    ELSE [service |-> a, synthesis |-> y, result |-> FALSE]

\* AudioService.speak(text, options) up to synthesis.speak(utterance).
speak(a, y) ==
    LET s == stop(a, y)
        utterance == y.made + 1
    IN [service |-> [s.service EXCEPT !.currentUtterance = Some(utterance)],
        synthesis |-> [s.synthesis EXCEPT !.queue = Append(@, utterance),
                                          !.made = utterance]]

\* AudioService.pause()
pause(a, y) ==
    IF a.isPlaying /\ ~a.isPaused
    THEN [service |-> a, synthesis |-> [y EXCEPT !.paused = TRUE], result |-> TRUE]
    ELSE [service |-> a, synthesis |-> y, result |-> FALSE]

\* AudioService.resume()
resume(a, y) ==
    IF a.isPlaying /\ a.isPaused
    THEN [service |-> a, synthesis |-> [y EXCEPT !.paused = FALSE], result |-> TRUE]
    ELSE [service |-> a, synthesis |-> y, result |-> FALSE]

\* The AudioPlayer before its first render.
IdlePlayer == [isPlaying |-> FALSE, isPaused |-> FALSE, spoken |-> <<>>]

\* A call of audioService.stop() from a handler of the app.
AudioStop ==
    LET s == stop(audioService, synthesis)
    IN audioService' = s.service /\ synthesis' = s.synthesis /\ UNCHANGED player

\* AudioPlayer.stopPlayback: "if (audioService.stop()) { setIsPlaying(false);
\* setIsPaused(false); }"
stopPlayback(p, a, y) ==
    LET s == stop(a, y)
    IN [service |-> s.service, synthesis |-> s.synthesis,
        player |-> IF s.result
                   THEN [p EXCEPT !.isPlaying = FALSE, !.isPaused = FALSE]
                   ELSE p]

\* stopPlayback() called from a handler of the player.
StopPlayback ==
    LET s == stopPlayback(player, audioService, synthesis)
    IN audioService' = s.service /\ synthesis' = s.synthesis /\ player' = s.player

\* ------------------------------------------------------------------- Init
InitApp ==
    /\ route = None
    /\ story = None
    /\ currentPosition = None
    /\ checkpoints = <<>>
    /\ completedCheckpoints = <<>>
    /\ currentChapter = 0
    /\ tripData = None
    /\ isLoading = FALSE
    /\ error = None
    /\ planning = None

InitView ==
    /\ mounted = FALSE
    /\ inst = 0
    /\ isTracking = FALSE
    /\ tripStartTime = None
    /\ totalDistance = 0
    /\ watchIdRef = None
    /\ lastPositionRef = None
    /\ pending = {}
    /\ crashed = FALSE

InitPlatform ==
    /\ watches = {}
    /\ nextWatchId = 1
    /\ clock = 0
    /\ saves = <<>>
    /\ trips = <<>>

InitAudio ==
    /\ audioService = IdleService
    /\ synthesis = IdleSynthesis
    /\ player = IdlePlayer

InitLog ==
    /\ cpEvents = <<>>
    /\ walkLog = <<>>
    /\ walks = 0
    /\ samples = <<>>

\* The app opens on one of its two route-planning screens.  App.jsx starts
\* on "map-selection"; "route-selection" is where the text-mode planner, the
\* entry of every walk over a provider route, is mounted.
Init ==
    /\ currentScreen \in {"map-selection", "route-selection"}
    /\ InitApp /\ InitView /\ InitPlatform /\ InitLog
    /\ planRoute = [geometry |-> None]
    /\ planN = 4
    /\ planOut = None
    /\ InitAudio

\* ------------------------------------------------------------ App handlers
\* handleRouteSelected(routeData)
handleRouteSelected(routeData) ==
    /\ route' = Some(routeData.route)
    /\ checkpoints' = routeData.checkpoints
    /\ story' = routeData.story
    /\ currentScreen' = "walking"
    /\ error' = None
    /\ currentChapter' = IF IsSome(routeData.story) /\ Get(routeData.story).chapters > 0
                         THEN 0 ELSE currentChapter
    /\ walks' = walks + 1

handleErrorKeepsLoading(errorMessage) ==
    /\ error' = Some(errorMessage)
    /\ UNCHANGED isLoading

\* handleError(errorMessage)
handleError(errorMessage) ==
    /\ error' = Some(errorMessage)
    /\ isLoading' = FALSE

MarkApp == pending' = IF appVars' = appVars THEN pending ELSE pending \cup {"app"}

\* handleNavigation(screen): the header buttons, TripHistory's back button
\* and TripSummary's history button.
Navigate(screen) ==
    /\ ~crashed /\ pending = {}
    /\ currentScreen # "map-selection"
    /\ currentScreen' = screen
    /\ error' = None
    /\ UNCHANGED <<route, story, currentPosition, checkpoints, completedCheckpoints,
                   currentChapter, tripData, isLoading>>
    /\ MarkApp
    /\ cpEvents' = <<>>
    /\ UNCHANGED <<planning, viewVars, crashed, platformVars, walkLog, walks, samples, plannerVars, audioVars>>

\* resetApp: "New Trip" of the header and of the summary screen.
ResetApp ==
    /\ ~crashed /\ pending = {}
    /\ currentScreen \notin {"map-selection", "route-selection"}
    /\ route' = None
    /\ story' = None
    /\ currentPosition' = None
    /\ checkpoints' = <<>>
    /\ completedCheckpoints' = <<>>
    /\ currentChapter' = 0
    /\ tripData' = None
    /\ currentScreen' = "map-selection"
    /\ error' = None
    /\ UNCHANGED isLoading
    /\ MarkApp
    /\ cpEvents' = <<>>
    /\ UNCHANGED <<planning, viewVars, crashed, platformVars, walkLog, walks, samples, plannerVars>>
    /\ AudioStop

\* The error banner's Dismiss button: setError(null).
DismissError ==
    /\ ~crashed /\ pending = {}
    /\ IsSome(error)
    /\ error' = None
    /\ UNCHANGED <<currentScreen, route, story, currentPosition, checkpoints,
                   completedCheckpoints, currentChapter, tripData, isLoading>>
    /\ MarkApp
    /\ cpEvents' = <<>>
    /\ UNCHANGED <<planning, viewVars, crashed, platformVars, walkLog, walks, samples, plannerVars, audioVars>>

\* ------------------------------------------------------------ route planning
\* InteractiveMapSelector.startRoute: a missing selection is reported through
\* onError, otherwise the mock route data goes to onRouteSelected.
StartRoute(selected) ==
    /\ ~crashed /\ pending = {}
    /\ currentScreen = "map-selection" /\ ~isLoading
    /\ walks < MaxWalks
    /\ IF selected
       THEN /\ handleRouteSelected(MockRouteData)
            /\ UNCHANGED <<currentPosition, completedCheckpoints, tripData, isLoading>>
       ELSE /\ handleError("select")
            /\ UNCHANGED <<currentScreen, route, story, currentPosition, checkpoints,
                           completedCheckpoints, currentChapter, tripData, walks>>
    /\ MarkApp
    /\ cpEvents' = <<>>
    /\ UNCHANGED <<planning, viewVars, crashed, platformVars, walkLog, samples, plannerVars, audioVars>>

\* RouteSelector.handleSubmit up to its first await: the two validations,
\* then onLoading(true).
Submit(valid, numAutoCheckpoints) ==
    /\ ~crashed /\ pending = {}
    /\ currentScreen = "route-selection" /\ ~isLoading
    /\ planning = None
    /\ walks < MaxWalks
    /\ IF valid
       THEN /\ isLoading' = TRUE
            /\ planning' = Some([numAutoCheckpoints |-> numAutoCheckpoints])
            /\ UNCHANGED error
       ELSE /\ handleError("input")
            /\ UNCHANGED planning
    /\ UNCHANGED <<currentScreen, route, story, currentPosition, checkpoints,
                   completedCheckpoints, currentChapter, tripData>>
    /\ MarkApp
    /\ cpEvents' = <<>>
    /\ UNCHANGED <<viewVars, crashed, platformVars, walkLog,
                   walks, samples, plannerVars, audioVars>>

\* The rest of handleSubmit when calculateWalkingRoute rejects:
\* onError(...), then the finally block's onLoading(false).
SubmitFails ==
    /\ ~crashed
    /\ IsSome(planning)
    /\ planning' = None
    /\ handleError("route")
    /\ UNCHANGED <<currentScreen, route, story, currentPosition, checkpoints,
                   completedCheckpoints, currentChapter, tripData>>
    /\ MarkApp
    /\ cpEvents' = <<>>
    /\ UNCHANGED <<viewVars, crashed, platformVars, walkLog,
                   walks, samples, plannerVars, audioVars>>

\* The rest of handleSubmit when the route is found: generateCheckpoints, a
\* story (cached, generated or fallback) of numChapters chapters,
\* onRouteSelected(routeData), then the finally block's onLoading(false).
SubmitSucceeds(totalPoints, numChapters) ==
    /\ ~crashed
    /\ IsSome(planning)
    /\ LET routeResult == RouteResult(totalPoints)
           allCheckpoints == generateCheckpoints(routeResult,
                                 Get(planning).numAutoCheckpoints)
       IN /\ numChapters \in {Len(allCheckpoints) + 1} \cup MalformedChapterCounts
          /\ handleRouteSelected([route |-> routeResult,
                                  checkpoints |-> allCheckpoints,
                                  story |-> Some([chapters |-> numChapters])])
    /\ planning' = None
    /\ isLoading' = FALSE
    /\ UNCHANGED <<currentPosition, completedCheckpoints, tripData>>
    /\ MarkApp
    /\ cpEvents' = <<>>
    /\ UNCHANGED <<viewVars, crashed, platformVars, walkLog,
                   samples, plannerVars, audioVars>>

\* handleSubmit up to its first await, as Submit with valid input, keeping
\* the form's origin and what the external calls are going to answer: the
\* number of points of the route found, the cache lookup, whether the API
\* key is set, the provider's answer, and whether saveStory succeeds.
StorySubmit(numAutoCheckpoints, origin, totalPoints, lookup, apiKey, response, saved) ==
    /\ ~crashed /\ pending = {}
    /\ currentScreen = "route-selection" /\ ~isLoading
    /\ planning = None
    /\ walks < MaxWalks
    /\ isLoading' = TRUE
    /\ planning' = Some([numAutoCheckpoints |-> numAutoCheckpoints,
                         origin |-> origin, totalPoints |-> totalPoints,
                         lookup |-> lookup, apiKey |-> apiKey,
                         response |-> response, saved |-> saved])
    /\ UNCHANGED <<currentScreen, route, story, currentPosition, checkpoints,
                   completedCheckpoints, currentChapter, tripData, error>>
    /\ MarkApp
    /\ cpEvents' = <<>>
    /\ UNCHANGED <<viewVars, crashed, platformVars, walkLog,
                   walks, samples, plannerVars, audioVars>>

\* The story a walk is bound to: its title and its number of chapters.
BoundStory(st) == [title |-> st.title, chapters |-> Len(st.chapters)]

\* The rest of that handleSubmit once the route is found: checkpoints, the
\* story part, then onRouteSelected(routeData), or the catch's onError when
\* the story part threw outside its own try; the finally block's
\* onLoading(false).
StorySettles ==
    /\ ~crashed
    /\ IsSome(planning) /\ "lookup" \in DOMAIN Get(planning)
    /\ LET p == Get(planning)
           routeResult == RouteResult(p.totalPoints)
           allCheckpoints == generateCheckpoints(routeResult, p.numAutoCheckpoints)
           outcome == handleSubmitStory(p.origin, DestinationInput, allCheckpoints,
                          getStory(p.lookup, allCheckpoints), p.apiKey,
                          p.response, p.saved)
       IN IF outcome.ok
          THEN /\ handleRouteSelected([route |-> routeResult,
                                       checkpoints |-> allCheckpoints,
                                       story |-> Some(BoundStory(outcome.story))])
          ELSE /\ handleError("route")
               /\ UNCHANGED <<currentScreen, route, story, checkpoints,
                              currentChapter, walks>>
    /\ planning' = None
    /\ isLoading' = FALSE
    /\ UNCHANGED <<currentPosition, completedCheckpoints, tripData>>
    /\ MarkApp
    /\ cpEvents' = <<>>
    /\ UNCHANGED <<viewVars, crashed, platformVars, walkLog,
                   samples, plannerVars, audioVars>>

\* --------------------------------------------------------- React commits
\* What a run of the proximity effect leaves behind (instance w).
ApplyEffect(e, w, log) ==
    /\ IsSome(e.summary) => log[w].attempts < MaxSaves
    /\ completedCheckpoints' = e.st.completed
    /\ currentChapter' = e.st.chapter
    /\ cpEvents' = e.fired
    /\ saves' = IF IsSome(e.summary)
                THEN Append(saves, [summary |-> Get(e.summary), inst |-> w,
                                    deadRef |-> None])
                ELSE saves
    /\ walkLog' = IF IsSome(e.summary)
                  THEN [log EXCEPT ![w].attempts = @ + 1]
                  ELSE log

\* First commit of LeafletMapView: the tracking effect runs startTracking
\* (setIsTracking(true), setTripStartTime(new Date()), watchPosition), then
\* the proximity effect runs with the state of this render.
MountView(playerUpdates) ==
    /\ ~crashed /\ pending # {}
    /\ ~mounted /\ ShowsMapView /\ ~RenderThrows
    /\ mounted' = TRUE
    /\ inst' = inst + 1
    /\ isTracking' = TRUE
    /\ tripStartTime' = Some(clock)
    /\ totalDistance' = 0
    /\ lastPositionRef' = None
    /\ watchIdRef' = Some(nextWatchId)
    /\ watches' = watches \cup {nextWatchId}
    /\ nextWatchId' = nextWatchId + 1
    /\ LET e == ProximityEffect(None, 0)
       IN /\ ApplyEffect(e, inst + 1,
                         Append(walkLog, [attempts |-> 0, stored |-> 0, emitted |-> 0, presses |-> 0]))
          /\ pending' = {"isTracking", "tripStartTime"}
                            \cup (IF e.fired # <<>> THEN {"app"} ELSE {})
                            \cup playerUpdates
    /\ UNCHANGED <<currentScreen, route, story, currentPosition, checkpoints,
                   tripData, isLoading, error, planning, crashed, clock, trips,
                   walks, samples, plannerVars>>

\* The commit that mounts the view while nothing is spoken.
RenderMount == MountView({}) /\ UNCHANGED audioVars

\* The first render of LeafletMapView throws: React tears the tree down.
RenderCrash ==
    /\ ~crashed /\ pending # {}
    /\ ~mounted /\ ShowsMapView /\ RenderThrows
    /\ crashed' = TRUE
    /\ pending' = {}
    /\ cpEvents' = <<>>
    /\ UNCHANGED <<appVars, planning, viewVars, platformVars, walkLog, walks, samples, plannerVars, audioVars>>

\* A later commit of the mounted view.  The tracking effect (deps isTracking,
\* onError, onPositionUpdate; onError is a new function on every App render)
\* runs its cleanup - clearWatch(watchIdRef.current), the ref is kept - and
\* starts tracking again only if isTracking is false.  The proximity effect
\* (deps include onCheckpointReached, tripStartTime, totalDistance) runs when
\* one of its dependencies changed.
UpdateView(playerUpdates) ==
    /\ ~crashed /\ pending # {}
    /\ mounted /\ ShowsMapView
    /\ LET runTracking == pending \cap {"app", "isTracking"} # {}
           runProximity == pending \cap {"app", "tripStartTime", "totalDistance"} # {}
           cleaned == IF runTracking /\ IsSome(watchIdRef)
                      THEN watches \ {Get(watchIdRef)} ELSE watches
           restart == runTracking /\ ~isTracking
           e == IF runProximity THEN ProximityEffect(tripStartTime, totalDistance)
                ELSE NoEffect
       IN /\ watches' = IF restart THEN cleaned \cup {nextWatchId} ELSE cleaned
          /\ nextWatchId' = IF restart THEN nextWatchId + 1 ELSE nextWatchId
          /\ watchIdRef' = IF restart THEN Some(nextWatchId) ELSE watchIdRef
          /\ isTracking' = IF restart THEN TRUE ELSE isTracking
          /\ tripStartTime' = IF restart THEN Some(clock) ELSE tripStartTime
          /\ ApplyEffect(e, inst, walkLog)
          /\ pending' = (IF restart THEN {"isTracking", "tripStartTime"} ELSE {})
                            \cup (IF e.fired # <<>> THEN {"app"} ELSE {})
                            \cup playerUpdates
    /\ UNCHANGED <<currentScreen, route, story, currentPosition, checkpoints,
                   tripData, isLoading, error, planning, mounted, inst,
                   totalDistance, lastPositionRef, crashed, clock, trips,
                   walks, samples, plannerVars>>

\* A later commit of the mounted view while nothing is spoken.
RenderUpdate == UpdateView({}) /\ UNCHANGED audioVars

\* An unmount whose cleanup leaves the watch registered.
RenderUnmountKeepsWatch ==
    /\ ~crashed /\ pending # {}
    /\ mounted /\ ~ShowsMapView
    /\ mounted' = FALSE
    /\ saves' = [k \in 1..Len(saves) |->
                    IF saves[k].inst = inst
                    THEN [saves[k] EXCEPT !.deadRef = watchIdRef] ELSE saves[k]]
    /\ isTracking' = FALSE
    /\ tripStartTime' = None
    /\ totalDistance' = 0
    /\ watchIdRef' = None
    /\ lastPositionRef' = None
    /\ pending' = {}
    /\ cpEvents' = <<>>
    /\ UNCHANGED <<appVars, planning, inst, crashed, watches, nextWatchId, clock,
                   trips, walkLog, walks, samples, plannerVars, audioVars>>

\* The commit that removes LeafletMapView: the tracking effect's cleanup
\* clears the watch of the ref; the instance's state goes, its ref stays
\* with the completeTrip calls still awaiting saveTrip.
RenderUnmount ==
    /\ ~crashed /\ pending # {}
    /\ mounted /\ ~ShowsMapView
    /\ mounted' = FALSE
    /\ watches' = IF IsSome(watchIdRef) THEN watches \ {Get(watchIdRef)} ELSE watches
    /\ saves' = [k \in 1..Len(saves) |->
                    IF saves[k].inst = inst
                    THEN [saves[k] EXCEPT !.deadRef = watchIdRef] ELSE saves[k]]
    /\ isTracking' = FALSE
    /\ tripStartTime' = None
    /\ totalDistance' = 0
    /\ watchIdRef' = None
    /\ lastPositionRef' = None
    /\ pending' = {}
    /\ cpEvents' = <<>>
    /\ UNCHANGED <<appVars, planning, inst, crashed, nextWatchId, clock, trips,
                   walkLog, walks, samples, plannerVars, audioVars>>

\* A commit of a tree without LeafletMapView.
RenderOther ==
    /\ ~crashed /\ pending # {}
    /\ ~mounted /\ ~ShowsMapView
    /\ pending' = {}
    /\ cpEvents' = <<>>
    /\ UNCHANGED <<appVars, planning, viewVars, crashed, platformVars, walkLog, walks, samples, plannerVars, audioVars>>

\* ------------------------------------------------------ platform callbacks
WatchLive == mounted /\ IsSome(watchIdRef) /\ Get(watchIdRef) \in watches

traveledAfterFromOrigin(total, last, newPosition) ==
    total + calculateDistance(IF IsSome(last) THEN Get(last).lat ELSE 0,
                              IF IsSome(last) THEN Get(last).lng ELSE 0,
                              newPosition.lat, newPosition.lng)

\* "if (lastPositionRef.current) { ... setTotalDistance(prev => prev +
\* distance / 1000) }" of the success callback.
traveledAfter(total, last, newPosition) ==
    IF IsSome(last)
    THEN total + calculateDistance(Get(last).lat, Get(last).lng,
                                   newPosition.lat, newPosition.lng)
    ELSE total

\* A success callback that also moves the story on by one chapter.
SampleAdvancesChapter(lat) ==
    /\ ~crashed /\ WatchLive
    /\ Len(samples) < MaxSamples
    /\ LET newPosition == [lat |-> lat, lng |-> 0]
       IN /\ totalDistance' = traveledAfter(totalDistance, lastPositionRef, newPosition)
          /\ lastPositionRef' = Some(newPosition)
          /\ currentPosition' = Some(newPosition)
          /\ pending' = pending \cup {"app"}
                            \cup (IF totalDistance' # totalDistance
                                  THEN {"totalDistance"} ELSE {})
    /\ currentChapter' = IF IsSome(story) /\ currentChapter + 1 < Get(story).chapters
                         THEN currentChapter + 1 ELSE currentChapter
    /\ samples' = Append(samples, [inst |-> inst, lat |-> lat])
    /\ cpEvents' = <<>>
    /\ UNCHANGED <<currentScreen, route, story, checkpoints, completedCheckpoints,
                   tripData, isLoading, error, planning, mounted,
                   inst, isTracking, tripStartTime, watchIdRef, crashed,
                   platformVars, walkLog, walks, plannerVars, audioVars>>

\* watchPosition's success callback for a sample at latitude lat.
Sample(lat) ==
    /\ ~crashed /\ WatchLive
    /\ Len(samples) < MaxSamples
    /\ LET newPosition == [lat |-> lat, lng |-> 0]
       IN /\ totalDistance' = traveledAfter(totalDistance, lastPositionRef, newPosition)
          /\ lastPositionRef' = Some(newPosition)
          /\ currentPosition' = Some(newPosition)
          /\ pending' = pending \cup {"app"}
                            \cup (IF totalDistance' # totalDistance
                                  THEN {"totalDistance"} ELSE {})
    /\ samples' = Append(samples, [inst |-> inst, lat |-> lat])
    /\ cpEvents' = <<>>
    /\ UNCHANGED <<currentScreen, route, story, checkpoints, completedCheckpoints,
                   currentChapter, tripData, isLoading, error, planning, mounted,
                   inst, isTracking, tripStartTime, watchIdRef, crashed,
                   platformVars, walkLog, walks, plannerVars, audioVars>>

\* An error callback that also subscribes again.
GeoErrorResubscribes ==
    /\ ~crashed /\ WatchLive
    /\ handleError("location")
    /\ watches' = (watches \ {Get(watchIdRef)}) \cup {nextWatchId}
    /\ watchIdRef' = Some(nextWatchId)
    /\ nextWatchId' = nextWatchId + 1
    /\ UNCHANGED <<currentScreen, route, story, currentPosition, checkpoints,
                   completedCheckpoints, currentChapter, tripData>>
    /\ MarkApp
    /\ cpEvents' = <<>>
    /\ UNCHANGED <<planning, mounted, inst, isTracking, tripStartTime,
                   totalDistance, lastPositionRef, crashed, clock, saves, trips,
                   walkLog, walks, samples, plannerVars, audioVars>>

\* watchPosition's error callback: onError("Location tracking error: ...").
GeoError ==
    /\ ~crashed /\ WatchLive
    /\ handleError("location")
    /\ UNCHANGED <<currentScreen, route, story, currentPosition, checkpoints,
                   completedCheckpoints, currentChapter, tripData>>
    /\ MarkApp
    /\ cpEvents' = <<>>
    /\ UNCHANGED <<planning, viewVars, crashed, platformVars, walkLog, walks, samples, plannerVars, audioVars>>

\* saveTrip(trip): db.add("trips", {...trip, date}).
saveTrip(store, trip, now) == Append(store, [trip |-> trip, date |-> now])

\* A completeTrip that reports a failed save and stops there.
SaveSettlesBlocking(ok) ==
    /\ saves # <<>>
    /\ LET s == Head(saves)
           live == mounted /\ inst = s.inst
           ref == IF live THEN watchIdRef ELSE s.deadRef
           rest == Tail(saves)
       IN /\ trips' = IF ok THEN saveTrip(trips, s.summary, clock) ELSE trips
          /\ watches' = IF IsSome(ref) THEN watches \ {Get(ref)} ELSE watches
          /\ saves' = [j \in 1..Len(rest) |->
                          IF rest[j].inst = s.inst
                          THEN [rest[j] EXCEPT !.deadRef = None] ELSE rest[j]]
          /\ watchIdRef' = IF live THEN None ELSE watchIdRef
          /\ isTracking' = IF live THEN FALSE ELSE isTracking
          \* handleTripCompleted(tripSummary): setTripData, setCurrentScreen
          \* (audioService.stop() is the AudioStop below)
          /\ tripData' = IF crashed \/ ~ok THEN tripData ELSE Some(s.summary)
          /\ currentScreen' = IF crashed \/ ~ok THEN currentScreen ELSE "summary"
          /\ walkLog' = [walkLog EXCEPT ![s.inst].emitted = IF ok THEN @ + 1 ELSE @,
                                       ![s.inst].stored = IF ok THEN @ + 1 ELSE @]
          /\ pending' = IF crashed THEN pending
                        ELSE pending \cup {"app"}
                                 \cup (IF live /\ isTracking THEN {"isTracking"} ELSE {})
    /\ error' = IF ok THEN error ELSE Some("save")
    /\ cpEvents' = <<>>
    /\ UNCHANGED <<route, story, currentPosition, checkpoints, completedCheckpoints,
                   currentChapter, isLoading, planning, mounted, inst,
                   tripStartTime, totalDistance, lastPositionRef, crashed,
                   nextWatchId, clock, walks, samples, plannerVars>>
    /\ AudioStop

\* The oldest pending saveTrip settles (IndexedDB serves the open requests
\* and the readwrite transactions on one store in the order they were made;
\* ok: the record is added, otherwise the rejection is caught and logged) and
\* completeTrip resumes after its await: clearWatch and null the ref,
\* setIsTracking(false), onTripCompleted.
SaveSettles(ok) ==
    /\ saves # <<>>
    /\ LET s == Head(saves)
           live == mounted /\ inst = s.inst
           ref == IF live THEN watchIdRef ELSE s.deadRef
           rest == Tail(saves)
       IN /\ trips' = IF ok THEN saveTrip(trips, s.summary, clock) ELSE trips
          /\ watches' = IF IsSome(ref) THEN watches \ {Get(ref)} ELSE watches
          /\ saves' = [j \in 1..Len(rest) |->
                          IF rest[j].inst = s.inst
                          THEN [rest[j] EXCEPT !.deadRef = None] ELSE rest[j]]
          /\ watchIdRef' = IF live THEN None ELSE watchIdRef
          /\ isTracking' = IF live THEN FALSE ELSE isTracking
          \* handleTripCompleted(tripSummary): setTripData, setCurrentScreen
          \* (audioService.stop() is the AudioStop below)
          /\ tripData' = IF crashed THEN tripData ELSE Some(s.summary)
          /\ currentScreen' = IF crashed THEN currentScreen ELSE "summary"
          /\ walkLog' = [walkLog EXCEPT ![s.inst].emitted = @ + 1,
                                       ![s.inst].stored = IF ok THEN @ + 1 ELSE @]
          /\ pending' = IF crashed THEN pending
                        ELSE pending \cup {"app"}
                                 \cup (IF live /\ isTracking THEN {"isTracking"} ELSE {})
    /\ cpEvents' = <<>>
    /\ UNCHANGED <<route, story, currentPosition, checkpoints, completedCheckpoints,
                   currentChapter, isLoading, error, planning, mounted, inst,
                   tripStartTime, totalDistance, lastPositionRef, crashed,
                   nextWatchId, clock, walks, samples, plannerVars>>
    /\ AudioStop

\* handleEndTrip: the "End Trip" button (disabled unless isTracking).
EndTrip ==
    /\ ~crashed /\ pending = {}
    /\ mounted /\ isTracking
    /\ watches' = IF IsSome(watchIdRef) THEN watches \ {Get(watchIdRef)} ELSE watches
    /\ watchIdRef' = None
    /\ isTracking' = FALSE
    /\ LET tripSummary == handleEndTripSummary(tripStartTime, clock, route,
                              totalDistance, completedCheckpoints, checkpoints)
       IN \* handleTripCompleted(tripSummary)
          /\ tripData' = Some(tripSummary)
          /\ currentScreen' = "summary"
          /\ walkLog' = [walkLog EXCEPT ![inst].emitted = @ + 1]
    /\ pending' = {"app", "isTracking"}
    /\ cpEvents' = <<>>
    /\ UNCHANGED <<route, story, currentPosition, checkpoints, completedCheckpoints,
                   currentChapter, isLoading, error, planning, mounted, inst,
                   tripStartTime, totalDistance, lastPositionRef, crashed,
                   nextWatchId, clock, saves, trips, walks, samples,
                   plannerVars>>
    /\ AudioStop

\* A minute of the walk passes.
Tick ==
    /\ mounted
    /\ clock < MaxClock * MsPerMinute
    /\ clock' = clock + MsPerMinute
    /\ cpEvents' = <<>>
    /\ UNCHANGED <<appVars, planning, viewVars, pending, crashed, watches,
                   nextWatchId, saves, trips, walkLog, walks,
                   samples, plannerVars, audioVars>>

\* ------------------------------------------------------ audio player controls
\* AudioPlayer is rendered with LeafletMapView when the walk has a story.
ShowsAudioPlayer == mounted /\ ShowsMapView /\ IsSome(story)

\* handlePreviousChapter: stopPlayback(), onChapterChange(currentChapter - 1)
\* (onChapterChange is App's setCurrentChapter).
PreviousChapter ==
    /\ ~crashed /\ pending = {}
    /\ ShowsAudioPlayer
    /\ walkLog[inst].presses < MaxPresses
    /\ currentChapter > 0
    /\ StopPlayback
    /\ currentChapter' = currentChapter - 1
    /\ UNCHANGED <<currentScreen, route, story, currentPosition, checkpoints,
                   completedCheckpoints, tripData, isLoading, error>>
    /\ MarkApp
    /\ cpEvents' = <<>>
    /\ walkLog' = [walkLog EXCEPT ![inst].presses = @ + 1]
    /\ UNCHANGED <<planning, viewVars, crashed, platformVars, walks, samples,
                   plannerVars>>

\* handleNextChapter without its upper guard.
NextChapterUnguarded ==
    /\ ~crashed /\ pending = {}
    /\ ShowsAudioPlayer
    /\ walkLog[inst].presses < MaxPresses
    /\ StopPlayback
    /\ currentChapter' = currentChapter + 1
    /\ UNCHANGED <<currentScreen, route, story, currentPosition, checkpoints,
                   completedCheckpoints, tripData, isLoading, error>>
    /\ MarkApp
    /\ cpEvents' = <<>>
    /\ walkLog' = [walkLog EXCEPT ![inst].presses = @ + 1]
    /\ UNCHANGED <<planning, viewVars, crashed, platformVars, walks, samples,
                   plannerVars>>

\* handleNextChapter: stopPlayback(), onChapterChange(currentChapter + 1).
NextChapter ==
    /\ ~crashed /\ pending = {}
    /\ ShowsAudioPlayer
    /\ walkLog[inst].presses < MaxPresses
    /\ currentChapter < Get(story).chapters - 1
    /\ StopPlayback
    /\ currentChapter' = currentChapter + 1
    /\ UNCHANGED <<currentScreen, route, story, currentPosition, checkpoints,
                   completedCheckpoints, tripData, isLoading, error>>
    /\ MarkApp
    /\ cpEvents' = <<>>
    /\ walkLog' = [walkLog EXCEPT ![inst].presses = @ + 1]
    /\ UNCHANGED <<planning, viewVars, crashed, platformVars, walks, samples,
                   plannerVars>>

\* ------------------------------------------------------------- the program
Next ==
    \/ \E screen \in {"history", "map-selection", "route-selection"} : Navigate(screen)
    \/ ResetApp
    \/ DismissError
    \/ \E selected \in BOOLEAN : StartRoute(selected)
    \/ \E valid \in BOOLEAN, n \in WalkCheckpointCounts : Submit(valid, n)
    \/ SubmitFails
    \/ \E totalPoints \in WalkRoutePoints, numChapters \in 0..(MaxPoints + 1) :
           SubmitSucceeds(totalPoints, numChapters)
    \/ RenderMount
    \/ RenderCrash
    \/ RenderUpdate
    \/ RenderUnmount
    \/ RenderOther
    \/ \E lat \in SampleLats : Sample(lat)
    \/ GeoError
    \/ \E ok \in BOOLEAN : SaveSettles(ok)
    \/ EndTrip
    \/ PreviousChapter
    \/ NextChapter
    \/ Tick

Spec == Init /\ [][Next]_vars

\* ------------------------------------------------------- planner harness
\* generateCheckpoints on every geometry of 0..MaxPoints points (and on a
\* route without geometry) for every count the selector offers.
InitPlanner ==
    /\ currentScreen = "route-selection"
    /\ InitApp /\ InitView /\ InitPlatform /\ InitLog
    /\ planRoute \in {[geometry |-> None]}
                       \cup {[geometry |-> Some(Coordinates(t))] : t \in 0..MaxPoints}
    /\ planN \in CheckpointCountOptions
    /\ planOut = None
    /\ InitAudio

Plan ==
    /\ planOut = None
    /\ planOut' = Some(generateCheckpoints(planRoute, planN))
    /\ UNCHANGED <<appVars, planning, viewVars, pending, crashed, platformVars,
                   logVars, planRoute, planN, audioVars>>

NextPlanner == Plan

SpecPlanner == InitPlanner /\ [][NextPlanner]_vars

\* ------------------------------------------------ position stream harness
\* One planned walk over a geometry of MaxPoints points with 4 checkpoints
\* and a 5-chapter story, fed with positions that are within 50 m of the
\* second checkpoint (point index 8) and of no other checkpoint nor of the
\* destination.
StreamLats == {8 * PointSpacing - 40, 8 * PointSpacing, 8 * PointSpacing + ProximityThreshold}

InitStream == Init /\ currentScreen = "route-selection"

NextStream ==
    \/ Submit(TRUE, 4)
    \/ SubmitSucceeds(MaxPoints, 5)
    \/ RenderOther
    \/ RenderMount
    \/ RenderUpdate
    \/ \E lat \in StreamLats : Sample(lat)
    \/ GeoError
    \/ DismissError
    \/ Tick

SpecStream == InitStream /\ [][NextStream]_vars

\* ------------------------------------------------------- speech harness
\* The AudioService driven by its callers (speak, pause, resume, stop, in
\* any order) and by the speech engine, which dispatches the events of the
\* utterances asynchronously.
InitSpeech == Init /\ currentScreen = "map-selection"

SpeechFrame ==
    UNCHANGED <<appVars, planning, viewVars, pending, crashed, platformVars,
                logVars, plannerVars, player>>

\* audioService.speak(text, options)
Speak ==
    /\ synthesis.made < MaxUtterances
    /\ LET s == speak(audioService, synthesis)
       IN audioService' = s.service /\ synthesis' = s.synthesis
    /\ SpeechFrame

\* audioService.stop()
Stop == AudioStop /\ SpeechFrame

\* audioService.pause()
Pause ==
    /\ LET s == pause(audioService, synthesis)
       IN audioService' = s.service /\ synthesis' = s.synthesis
    /\ SpeechFrame

\* audioService.resume()
Resume ==
    /\ LET s == resume(audioService, synthesis)
       IN audioService' = s.service /\ synthesis' = s.synthesis
    /\ SpeechFrame

\* The engine begins the utterance at the head of its queue: utterance.onstart.
EngineStart ==
    /\ synthesis.queue # <<>> /\ ~synthesis.started /\ ~synthesis.paused
    /\ synthesis' = [synthesis EXCEPT !.started = TRUE]
    /\ audioService' = [audioService EXCEPT !.isPlaying = TRUE, !.isPaused = FALSE]
    /\ SpeechFrame

\* The spoken utterance finishes: utterance.onend.
EngineEnd ==
    /\ synthesis.queue # <<>> /\ synthesis.started
    /\ synthesis' = [synthesis EXCEPT !.queue = Tail(@), !.started = FALSE,
                                      !.pauseSeen = FALSE]
    /\ audioService' = IdleService
    /\ SpeechFrame

\* The engine fails on the utterance at the head of its queue, spoken or
\* not: utterance.onerror.
EngineError ==
    /\ synthesis.queue # <<>>
    /\ synthesis' = [synthesis EXCEPT !.queue = Tail(@), !.started = FALSE,
                                      !.pauseSeen = FALSE]
    /\ audioService' = IdleService
    /\ SpeechFrame

\* The spoken utterance is told of synthesis.pause(): utterance.onpause.
EnginePaused ==
    /\ synthesis.started /\ synthesis.paused /\ ~synthesis.pauseSeen
    /\ synthesis' = [synthesis EXCEPT !.pauseSeen = TRUE]
    /\ audioService' = [audioService EXCEPT !.isPaused = TRUE]
    /\ SpeechFrame

\* The spoken utterance is told of synthesis.resume(): utterance.onresume.
EngineResumed ==
    /\ synthesis.started /\ ~synthesis.paused /\ synthesis.pauseSeen
    /\ synthesis' = [synthesis EXCEPT !.pauseSeen = FALSE]
    /\ audioService' = [audioService EXCEPT !.isPaused = FALSE]
    /\ SpeechFrame

\* The closing event (onend or onerror) of an utterance removed by cancel().
CancelledEvent ==
    /\ \E u \in synthesis.cancelled :
           synthesis' = [synthesis EXCEPT !.cancelled = @ \ {u}]
    /\ audioService' = IdleService
    /\ SpeechFrame

NextSpeech ==
    \/ Speak
    \/ Stop
    \/ Pause
    \/ Resume
    \/ EngineStart
    \/ EngineEnd
    \/ EngineError
    \/ EnginePaused
    \/ EngineResumed
    \/ CancelledEvent

SpecSpeech == InitSpeech /\ [][NextSpeech]_vars

\* --------------------------------------------------------- player harness
\* The AudioPlayer beside the map view: its auto-play effect, its play
\* button and its chapter buttons, over the AudioService and the engine.
\* "story.chapters[currentChapter]" of the player's render.
currentChapterData(st, chapter) == IsSome(st) /\ chapter < Get(st).chapters

\* playChapter / playCurrentChapter up to the await: setIsPlaying(true),
\* setIsPaused(false), audioService.speak(...).
playChapter(p, a, y, chapter, by) ==
    LET s == speak(a, y)
    IN [service |-> s.service, synthesis |-> s.synthesis,
        player |-> [isPlaying |-> TRUE, isPaused |-> FALSE,
                    spoken |-> Append(p.spoken, [chapter |-> chapter, by |-> by])]]

\* The body of the auto-play effect:
\* "if (currentChapterData && !isPlaying) playChapter()".
autoPlay(p, a, y, st, chapter) ==
    IF currentChapterData(st, chapter) /\ ~p.isPlaying
    THEN playChapter(p, a, y, chapter, "effect")
    ELSE [service |-> a, synthesis |-> y, player |-> p]

\* The state updates of the player that schedule another render of it.
PlayerUpdates(p, q) ==
    (IF p.isPlaying # q.isPlaying THEN {"isPlaying"} ELSE {})
        \cup (IF p.isPaused # q.isPaused THEN {"isPaused"} ELSE {})

\* What every other step of the player leaves alone.
PlayerFrame ==
    UNCHANGED <<appVars, planning, viewVars, crashed, platformVars, logVars,
                plannerVars>>

\* The commit that mounts the map view and, with a story, the player: the
\* auto-play effect runs for the first time.
PlayerMount ==
    LET e == autoPlay(player, audioService, synthesis, story, currentChapter)
    IN /\ e.synthesis.made <= MaxUtterances
       /\ MountView(PlayerUpdates(player, e.player))
       /\ audioService' = e.service
       /\ synthesis' = e.synthesis
       /\ player' = e.player

\* A later commit: the auto-play effect runs again when one of its
\* dependencies changed (currentChapter and onError with a render of App,
\* isPlaying with the player's own state).
PlayerUpdate ==
    LET runs == pending \cap {"app", "isPlaying"} # {}
        e == IF runs
             THEN autoPlay(player, audioService, synthesis, story, currentChapter)
             ELSE [service |-> audioService, synthesis |-> synthesis,
                   player |-> player]
    IN /\ e.synthesis.made <= MaxUtterances
       /\ UpdateView(PlayerUpdates(player, e.player))
       /\ audioService' = e.service
       /\ synthesis' = e.synthesis
       /\ player' = e.player

\* The spoken utterance finishes: utterance.onend runs the player's
\* onEndCallback (setIsPlaying(false), setIsPaused(false)) and resolves the
\* promise playChapter awaits, which calls setIsPlaying(false) as well.
PlayerEnd ==
    /\ synthesis.queue # <<>> /\ synthesis.started
    /\ synthesis' = [synthesis EXCEPT !.queue = Tail(@), !.started = FALSE,
                                      !.pauseSeen = FALSE]
    /\ audioService' = IdleService
    /\ player' = [player EXCEPT !.isPlaying = FALSE, !.isPaused = FALSE]
    /\ pending' = pending \cup PlayerUpdates(player, player')
    /\ PlayerFrame

\* handlePlayPause: pause while playing, resume while paused, otherwise
\* playCurrentChapter.
PlayPause ==
    /\ ~crashed /\ pending = {}
    /\ ShowsAudioPlayer
    /\ LET e == IF player.isPlaying /\ ~player.isPaused
                THEN LET s == pause(audioService, synthesis)
                     IN [service |-> s.service, synthesis |-> s.synthesis,
                         player |-> IF s.result
                                    THEN [player EXCEPT !.isPaused = TRUE]
                                    ELSE player]
                ELSE IF player.isPlaying /\ player.isPaused
                THEN LET s == resume(audioService, synthesis)
                     IN [service |-> s.service, synthesis |-> s.synthesis,
                         player |-> IF s.result
                                    THEN [player EXCEPT !.isPaused = FALSE]
                                    ELSE player]
                ELSE IF currentChapterData(story, currentChapter)
                THEN playChapter(player, audioService, synthesis,
                                 currentChapter, "button")
                ELSE [service |-> audioService, synthesis |-> synthesis,
                      player |-> player]
       IN /\ e.synthesis.made <= MaxUtterances
          /\ audioService' = e.service
          /\ synthesis' = e.synthesis
          /\ player' = e.player
          /\ pending' = PlayerUpdates(player, e.player)
    /\ PlayerFrame

NextPlayer ==
    \/ Submit(TRUE, 4)
    \/ SubmitSucceeds(MaxPoints, 5)
    \/ RenderOther
    \/ PlayerMount
    \/ PlayerUpdate
    \/ EngineStart
    \/ EnginePaused
    \/ EngineResumed
    \/ PlayerEnd
    \/ PlayPause
    \/ NextChapter

SpecPlayer == InitStream /\ [][NextPlayer]_vars

\* --------------------------------------------------------- story harness
\* Route planning with the story part of handleSubmit spelled out, for
\* every checkpoint count of the selector and every combination of answers.
StoryRoutePoints == {0, 6, MaxPoints}

NextStory ==
    \/ \E n \in CheckpointCountOptions, origin \in OriginInputs,
          totalPoints \in StoryRoutePoints, apiKey \in BOOLEAN, saved \in BOOLEAN :
          \E lookup \in Lookups(n), response \in Responses(n) :
              StorySubmit(n, origin, totalPoints, lookup, apiKey, response, saved)
    \/ StorySettles
    \/ RenderOther
    \/ DismissError

SpecStory == InitStream /\ [][NextStory]_vars

\* ------------------------------------------------------- fair scheduling
\* Route planning where the route request may fail as well, and where the
\* external calls of a handleSubmit in flight return or fail, so the rest of
\* the handler runs at some time.
SubmitReturns == SubmitFails \/ StorySettles

NextPlanning == NextStory \/ SubmitFails

SpecFair == InitStream /\ [][NextPlanning]_vars /\ WF_vars(SubmitReturns)

\* ------------------------------------------------- fallback story harness
\* generateFallbackStory on the checkpoints of every planner input, for
\* every origin and destination of the form.
Fallback(origin, destination) ==
    /\ planOut = None
    /\ planOut' = Some([origin |-> origin, destination |-> destination,
                        story |-> generateFallbackStory(origin, destination,
                                      generateCheckpoints(planRoute, planN))])
    /\ cpEvents' = <<>>
    /\ UNCHANGED <<appVars, planning, viewVars, pending, crashed, platformVars,
                   walkLog, walks, samples, planRoute, planN, audioVars>>

NextFallback ==
    \E origin \in OriginInputs, destination \in OriginInputs \cup {DestinationInput} :
        Fallback(origin, destination)

SpecFallback == InitPlanner /\ [][NextFallback]_vars

\* ====================================================== checked properties
\* A commit of the tracking view in which the proximity effect runs.
ProximityRun ==
    \/ RenderMount
    \/ RenderUpdate /\ pending \cap {"app", "tripStartTime", "totalDistance"} # {}

\* The checkpoint indices (0-based array positions, as the tracker reports
\* them) that are not in the completed set and lie within 50 m of the
\* current position.
DueCheckpoints ==
    IF ~IsSome(currentPosition) THEN {}
    ELSE {i \in 0..(Len(checkpoints) - 1) :
             /\ \A k \in 1..Len(completedCheckpoints) : completedCheckpoints[k] # i
             /\ Abs(checkpoints[i + 1].position.lat - Get(currentPosition).lat) <= 50}

\* C1: every run of the proximity effect on a position emits a
\* checkpoint-reached event for exactly the checkpoints that are not yet
\* completed and lie within 50 m (inclusive) of the position, each once;
\* none for a completed or a farther checkpoint.
C1_ProximityEvents ==
    [][ProximityRun =>
          /\ Range(cpEvents') = DueCheckpoints
          /\ Len(cpEvents') = Cardinality(DueCheckpoints)]_vars

\* C1 witness: a sample between the first two of four checkpoints was
\* processed: events for both of them, none for the two farther ones.
C1_Witness ==
    /\ mounted /\ Len(checkpoints) = 4
    /\ IsSome(currentPosition) /\ Get(currentPosition).lat = 75
    /\ cpEvents = <<0, 1>>

\* C2: in every reachable state and for every checkpoint index i, a second
\* notification of i (delivered, as the tracker delivers it, by the render
\* that follows the first) leaves the completed set and the active chapter
\* as the first left them, and a notification of an index already in the
\* completed set changes nothing.
C2_Idempotent ==
    \A i \in 0..MaxPoints :
        LET st == [completed |-> completedCheckpoints, chapter |-> currentChapter]
            once == handleCheckpointReached(completedCheckpoints, st, story, i)
            twice == handleCheckpointReached(once.completed, once, story, i)
        IN /\ twice = once
           /\ (\E k \in 1..Len(completedCheckpoints) : completedCheckpoints[k] = i)
                  => once = st

\* C2 witness: checkpoints were notified, and the commit after the
\* notification ran the proximity effect on the same position again.
C2_Witness ==
    /\ mounted /\ pending = {}
    /\ completedCheckpoints = <<0, 1>>
    /\ IsSome(currentPosition) /\ Get(currentPosition).lat = 75
    /\ cpEvents = <<>>

\* The positions k of the events of a commit whose index + 1 is a chapter
\* of the story.
ChapterEvents(events) ==
    {k \in 1..Len(events) : IsSome(story) /\ events[k] + 1 < Get(story).chapters}

\* C3: after the notifications of a commit the active chapter is i + 1 for
\* the last notified new index i whose i + 1 is a chapter of the story,
\* whatever the chapter was before (it may decrease); with no such
\* notification the chapter is unchanged.
C3_ChapterFollowsLastReported ==
    [][ProximityRun =>
          LET valid == ChapterEvents(cpEvents')
          IN currentChapter' =
                 IF valid = {} THEN currentChapter
                 ELSE cpEvents'[CHOOSE k \in valid : \A j \in valid : j <= k] + 1]_vars

\* C3 witness: checkpoint 3 was reported before checkpoints 0 and 1, and
\* the active chapter went back from 4 to 2.
C3_Witness ==
    /\ mounted /\ IsSome(story) /\ Get(story).chapters = 5
    /\ completedCheckpoints = <<3, 0, 1>>
    /\ cpEvents = <<0, 1>>
    /\ currentChapter = 2

\* The planner's input and output of the harness, once Plan has run.
PlanCoordinates == IF IsSome(planRoute.geometry) THEN Get(planRoute.geometry) ELSE <<>>
PlanPoints == Len(PlanCoordinates)
PlanResult == IF IsSome(planOut) THEN Get(planOut) ELSE <<>>

\* C4: for a geometry of at least 6 points and a count n in 2..5,
\* generateCheckpoints returns exactly n checkpoints, their index fields
\* 1..n in order, the i-th at coordinates[i * floor(totalPoints / (n + 1))]
\* (20 points and n = 4: coordinates 4, 8, 12, 16).
C4_EvenlySpaced ==
    (IsSome(planOut) /\ PlanPoints >= 6) =>
        /\ Len(PlanResult) = planN
        /\ \A i \in 1..Len(PlanResult) :
              LET c == PlanCoordinates[i * (PlanPoints \div (planN + 1)) + 1]
              IN /\ PlanResult[i].index = i
                 /\ PlanResult[i].position = [lat |-> c[2], lng |-> c[1]]
        /\ (PlanPoints = 20 /\ planN = 4) =>
              [i \in 1..4 |-> PlanResult[i].position] =
                  [i \in 1..4 |-> [lat |-> PlanCoordinates[4 * i + 1][2],
                                    lng |-> PlanCoordinates[4 * i + 1][1]]]

\* C4 witness: the planner ran on 20 points with n = 4.
C4_Witness ==
    /\ IsSome(planOut) /\ PlanPoints = 20 /\ planN = 4
    /\ Len(PlanResult) = 4

\* C5: on a geometry with fewer points than the requested count (3 points,
\* n = 4) generateCheckpoints returns fewer than n checkpoints.
C5_FewerOnShortGeometry ==
    (IsSome(planOut) /\ IsSome(planRoute.geometry) /\ PlanPoints < planN) =>
        Len(PlanResult) < planN

\* C6: the checkpoints generateCheckpoints returns come from pairwise
\* distinct coordinates of the geometry, so there are never more of them
\* than the geometry has points.
C6_DistinctPoints ==
    IsSome(planOut) =>
        /\ \A i, j \in 1..Len(PlanResult) :
              i # j => PlanResult[i].position # PlanResult[j].position
        /\ Len(PlanResult) <= PlanPoints
        /\ Len(PlanResult) <= planN

\* The current position is within 50 m of the route's destination
\* coordinate, or every checkpoint of the walk is in the completed set.
WalkIsOver ==
    /\ IsSome(route) /\ IsSome(currentPosition)
    /\ \/ /\ IsSome(Get(route).destCoords)
          /\ Abs(Get(Get(route).destCoords).lat - Get(currentPosition).lat) <= 50
       \/ \A i \in 0..(Len(checkpoints) - 1) :
              \E k \in 1..Len(completedCheckpoints) : completedCheckpoints[k] = i

\* C7: whatever the number of checkpoints of the route, a commit of the
\* started walk that processes a position within 50 m of the destination,
\* or with every checkpoint completed, finalizes: completeTrip assembles a
\* TripSummary (and hands it to saveTrip, after which trip-completed is
\* emitted).
C7_FinalizesAtDestination ==
    [][(RenderUpdate /\ "app" \in pending /\ IsSome(tripStartTime) /\ WalkIsOver)
          => walkLog'[inst].attempts = walkLog[inst].attempts + 1]_vars

\* C8: for one walk (one instance of the tracking view) the trip-completed
\* event is emitted at most once and at most one trip record is written.
C8_SummaryOnce ==
    \A w \in 1..Len(walkLog) : walkLog[w].emitted <= 1 /\ walkLog[w].stored <= 1

\* C9: the End Trip action hands over a TripSummary of the state at that
\* moment: checkpointsCompleted is the size of the completed set,
\* totalCheckpoints the number of checkpoints, actualDistance the distance
\* traveled so far, actualDuration the minutes from start time to end time.
C9_ForceEndSummary ==
    [][EndTrip =>
          /\ IsSome(tripData') /\ IsSome(tripStartTime)
          /\ LET t == Get(tripData')
             IN /\ t.checkpointsCompleted = Len(completedCheckpoints)
                /\ t.totalCheckpoints = Len(checkpoints)
                /\ t.actualDistance = totalDistance
                /\ t.startTime = Get(tripStartTime)
                /\ t.endTime = clock
                /\ t.actualDuration * MsPerMinute = t.endTime - t.startTime]_vars

\* C9 witness: a walk of four checkpoints was force-ended after a minute
\* with two of them completed and 175 m traveled.
C9_Witness ==
    /\ currentScreen = "summary" /\ IsSome(tripData)
    /\ inst > 0 /\ walkLog[inst].attempts = 0 /\ walkLog[inst].emitted = 1
    /\ Get(tripData).checkpointsCompleted = 2
    /\ Get(tripData).totalCheckpoints = 4
    /\ Get(tripData).actualDistance = 175
    /\ Get(tripData).actualDuration = 1

\* C10: every walk that has ended (trip-completed emitted, by completion or
\* by End Trip) had a save of its TripSummary attempted.
C10_EndedWalkIsSaved ==
    \A w \in 1..Len(walkLog) : walkLog[w].emitted > 0 => walkLog[w].attempts > 0

\* The latitudes of the samples of a delivery log that the instance w
\* received, in order.
RECURSIVE SamplesOf(_, _)
SamplesOf(delivered, w) ==
    IF delivered = <<>> THEN <<>>
    ELSE LET last == delivered[Len(delivered)]
             before == SamplesOf(SubSeq(delivered, 1, Len(delivered) - 1), w)
         IN IF last.inst = w THEN Append(before, last.lat) ELSE before

\* The sum of the distances between consecutive positions of a path.
RECURSIVE PathLength(_)
PathLength(path) ==
    IF Len(path) < 2 THEN 0
    ELSE PathLength(SubSeq(path, 1, Len(path) - 1))
             + Abs(path[Len(path)] - path[Len(path) - 1])

C12_CompletedWithinWalk ==
    \A k \in 1..Len(completedCheckpoints) :
        completedCheckpoints[k] \in 0..Len(checkpoints)

\* C13: while a story with at least one chapter is bound, the active chapter
\* index is within 0..chapters-1 after every step (checkpoint notifications,
\* player buttons and everything else), and the step that starts a walk with
\* such a story leaves it at 0.
C13_ChapterInRange ==
    [][/\ (IsSome(story') /\ Get(story').chapters >= 1)
            => currentChapter' \in 0..(Get(story').chapters - 1)
       /\ (walks' # walks /\ IsSome(story') /\ Get(story').chapters >= 1)
            => currentChapter' = 0]_vars

\* A walk in which a checkpoint was reported and a chapter button was
\* pressed, and the last chapter is the active one.
C13_Witness ==
    /\ mounted /\ currentScreen = "walking" /\ IsSome(story)
    /\ completedCheckpoints # <<>>
    /\ walkLog[inst].presses > 0
    /\ currentChapter = Get(story).chapters - 1
    /\ currentChapter > 0

\* A step of a walk (the walking screen before and after) that changes the
\* active chapter.
ChapterChangesDuringWalk ==
    /\ currentScreen = "walking" /\ currentScreen' = "walking"
    /\ currentChapter' # currentChapter

\* A press of the player's previous or next chapter button.
ChapterButtonPressed ==
    /\ mounted /\ mounted' /\ inst' = inst
    /\ walkLog'[inst].presses = walkLog[inst].presses + 1

\* C14 as stated: during a walk the active chapter changes only in a step
\* that delivers a checkpoint-reached notification.
C14_OnlyNotificationsChangeChapter ==
    [][ChapterChangesDuringWalk => cpEvents' # <<>>]_vars

\* C14 amended: during a walk the active chapter changes only in a step that
\* delivers a checkpoint-reached notification or in a press of the player's
\* previous/next chapter button, which moves it by exactly one; position
\* samples, errors and every other operation leave it alone.
C14_NotificationsAndButtonsChangeChapter ==
    [][ChapterChangesDuringWalk =>
          \/ cpEvents' # <<>>
          \/ /\ ChapterButtonPressed
             /\ Abs(currentChapter' - currentChapter) = 1]_vars

\* Both kinds of change happened in one walk: a notification took the story
\* to a later chapter and the previous button took it back to the first.
C14_Witness ==
    /\ mounted /\ currentScreen = "walking" /\ IsSome(story)
    /\ completedCheckpoints # <<>>
    /\ walkLog[inst].presses > 0
    /\ currentChapter = 0

\* The bound story does not have one chapter more than the walk has
\* checkpoints.
MalformedStory == IsSome(story) /\ Get(story).chapters # Len(checkpoints) + 1

\* The positions k of the events of a commit whose index + 1 is not a
\* chapter of the story.
TrailingEvents(events) ==
    {k \in 1..Len(events) : IsSome(story) /\ events[k] + 1 >= Get(story).chapters}

\* C15: in a commit that notifies checkpoints of a walk with a malformed
\* story, every notified index is appended to the completed set, also one
\* whose i + 1 is no chapter of the story; when all notified indices are of
\* that kind the active chapter is unchanged; and no error is raised (the
\* error banner is unchanged and the view does not crash).
C15_MalformedStoryForgiven ==
    [][(MalformedStory /\ cpEvents' # <<>>) =>
          /\ completedCheckpoints' = completedCheckpoints \o cpEvents'
          /\ (TrailingEvents(cpEvents') = 1..Len(cpEvents')
                 => currentChapter' = currentChapter)
          /\ error' = error
          /\ crashed' = crashed]_vars

\* A walk with 4 checkpoints and a story of 2 chapters in which the commit
\* just made notified the last checkpoint (index 3).
C15_Witness ==
    /\ mounted /\ currentScreen = "walking"
    /\ Len(checkpoints) = 4 /\ IsSome(story) /\ Get(story).chapters = 2
    /\ cpEvents = <<3>>
    /\ completedCheckpoints[Len(completedCheckpoints)] = 3

\* The walk of the stream harness: 4 checkpoints at route points 4, 8, 12
\* and 16, planner indices 1..4, and 5 chapters.
StreamWalk ==
    /\ Len(checkpoints) = 4
    /\ \A k \in 1..4 : /\ checkpoints[k].position.lat = 4 * k * PointSpacing
                       /\ checkpoints[k].index = k
    /\ IsSome(story) /\ Get(story).chapters = 5

\* C16: on that walk, with every sample within 50 m of the second checkpoint
\* only, a commit that notifies at all notifies once, for the second
\* checkpoint (planner index 2, reported as array position 1), no
\* notification was made before it, and it makes chapter 2 the active one;
\* and every commit that has processed a sample leaves exactly that one
\* checkpoint completed and chapter 2 active, however many samples and
\* commits there were.
C16_OneEventForSecondCheckpoint ==
    [][/\ currentScreen' = "walking" => StreamWalk'
       /\ cpEvents' # <<>> =>
             /\ cpEvents' = <<1>>
             /\ checkpoints[cpEvents'[1] + 1].index = 2
             /\ completedCheckpoints = <<>>
             /\ currentChapter' = 2
       /\ (mounted' /\ pending' = {} /\ samples' # <<>>) =>
             /\ completedCheckpoints' = <<1>>
             /\ currentChapter' = 2]_vars

\* Two samples in range were delivered, the notification was made, and a
\* later commit ran the proximity effect again without notifying.
C16_Witness ==
    /\ mounted /\ pending = {} /\ StreamWalk
    /\ Len(samples) = 2 /\ samples[1].lat # samples[2].lat
    /\ completedCheckpoints = <<1>> /\ currentChapter = 2
    /\ cpEvents = <<>>
    /\ IsSome(error)

\* C17: whenever the tracking view is not mounted, and whenever the mounted
\* view has emitted trip-completed (after completion or after End Trip), no
\* geolocation watch is registered.
C17_NoSubscriptionAfterEnd ==
    /\ ~mounted => watches = {}
    /\ (mounted /\ walkLog[inst].emitted > 0) => watches = {}

\* A walk subscribed, ended with trip-completed, and its view is gone.
C17_Witness ==
    /\ ~mounted /\ inst >= 1 /\ nextWatchId > 1
    /\ walkLog[inst].emitted > 0
    /\ currentScreen = "summary"
    /\ watches = {}

\* C18: the speech engine never holds more than one utterance of the
\* service, spoken or queued.
C18_AtMostOneUtterance == Len(synthesis.queue) <= 1

\* A step that puts the location error on the app's error banner.
LocationErrorSurfaced == error' = Some("location") /\ error' # error

\* C19: the error callback of the position stream always hands the error to
\* onError (the banner shows it afterwards); the step that surfaces it
\* leaves traveled distance, last position, current position, completed set,
\* active chapter and start time as they were and touches no subscription;
\* and a subscription is only ever created by the mount of the view, so
\* nothing subscribes again after an error.
C19_ErrorLeavesTripState ==
    [][/\ GeoError => error' = Some("location")
       /\ LocationErrorSurfaced =>
             UNCHANGED <<totalDistance, lastPositionRef, currentPosition,
                         completedCheckpoints, currentChapter, tripStartTime,
                         isTracking, watchIdRef, watches, nextWatchId>>
       /\ nextWatchId' # nextWatchId => (~mounted /\ mounted')]_vars

\* The error was surfaced in the middle of a walk that had already moved,
\* and the walk's data and its subscription are still there.
C19_Witness ==
    /\ mounted /\ error = Some("location")
    /\ totalDistance = 175 /\ IsSome(lastPositionRef) /\ IsSome(tripStartTime)
    /\ WatchLive

\* A step in which a pending saveTrip settles without adding a record.
SaveFailed == Len(saves') < Len(saves) /\ trips' = trips

\* C20: when the save of a completed trip fails (and the app is still
\* rendered), trip-completed is emitted all the same, with the summary that
\* was handed to saveTrip: it becomes the trip data, the screen becomes the
\* summary, and the error banner is left as it was.
C20_FailedSaveSwallowed ==
    [][(SaveFailed /\ ~crashed) =>
          /\ tripData' = Some(Head(saves).summary)
          /\ currentScreen' = "summary"
          /\ error' = error
          /\ walkLog'[Head(saves).inst].emitted
                 = walkLog[Head(saves).inst].emitted + 1]_vars

\* The only save of a walk failed, and the app shows the summary with no
\* error and no stored trip.
C20_Witness ==
    /\ inst >= 1 /\ saves = <<>> /\ trips = <<>>
    /\ walkLog[inst] = [attempts |-> 1, stored |-> 0, emitted |-> 1, presses |-> 0]
    /\ currentScreen = "summary" /\ IsSome(tripData)
    /\ error = None

\* The planning in flight is one of the story harness whose story
\* generation is going to fail in one of the three ways: the cache lookup
\* rejects, or it misses and the API key is missing or the request fails.
StoryGenerationFails ==
    /\ IsSome(planning) /\ "lookup" \in DOMAIN Get(planning)
    /\ \/ Get(planning).lookup.kind = "fails"
       \/ /\ Get(planning).lookup.kind = "miss"
          /\ ~Get(planning).apiKey \/ Get(planning).response.kind = "error"

\* C21: when such a planning settles (its route was found), the app is on
\* the walking screen with the fallback story of that walk bound, the error
\* banner is empty and the loading indicator is off.
C21_FallbackStoryStartsWalk ==
    [][(StoryGenerationFails /\ planning' = None) =>
          /\ currentScreen' = "walking"
          /\ IsSome(story')
          /\ Get(story') = BoundStory(generateFallbackStory(Get(planning).origin,
                               DestinationInput, checkpoints'))
          /\ error' = None
          /\ ~isLoading']_vars

\* C22: a loading indicator that is set is cleared at some later time,
\* whichever way the submission ends; and every step that puts an error on
\* the banner leaves the indicator cleared.
C22_LoadingCleared ==
    /\ isLoading ~> ~isLoading
    /\ [][(error' # error /\ IsSome(error')) => ~isLoading']_vars

\* A submission ended in a route failure: the indicator is off again and
\* the error is shown.
C22_Witness ==
    /\ ~isLoading /\ planning = None
    /\ error = Some("route")
    /\ currentScreen = "route-selection"

\* C23: the step that starts a walk binds a story with one chapter more
\* than the walk has checkpoints.
C23_ChapterCountMatches ==
    [][walks' # walks =>
          /\ IsSome(story')
          /\ Get(story').chapters = Len(checkpoints') + 1]_vars

\* The list [origin, checkpoint descriptions in order, destination] of the
\* fallback harness.
FallbackLocations ==
    LET cps == generateCheckpoints(planRoute, planN)
    IN <<Get(planOut).origin>> \o [k \in 1..Len(cps) |-> cps[k].description]
                               \o <<Get(planOut).destination>>

\* C24: the fallback story has exactly checkpoints.length + 1 chapters,
\* numbered 1, 2, ... in order, and chapter i is the segment from location
\* i to location i + 1 of that list.  (The function reads nothing but its
\* arguments, so the same inputs give the same story.)
C24_FallbackStoryShape ==
    IsSome(planOut) =>
        LET chapters == Get(planOut).story.chapters
            locations == FallbackLocations
        IN /\ Len(chapters) = Len(generateCheckpoints(planRoute, planN)) + 1
           /\ Len(chapters) = Len(locations) - 1
           /\ \A i \in 1..Len(chapters) :
                  /\ chapters[i].chapterNumber = i
                  /\ chapters[i].location = locations[i]
                  /\ chapters[i].towards = locations[i + 1]

\* A fallback story for 4 checkpoints: 5 chapters, the last one towards the
\* destination.
C24_Witness ==
    /\ IsSome(planOut)
    /\ Len(generateCheckpoints(planRoute, planN)) = 4
    /\ Len(Get(planOut).story.chapters) = 5
    /\ Get(planOut).story.chapters[5].towards = Get(planOut).destination
    /\ Get(planOut).origin # Get(planOut).destination

\* C25: while the tracking view is mounted with isTracking true, the watch
\* of its ref is registered.
C25_SubscribedWhileTracking ==
    (mounted /\ isTracking) => WatchLive

\* C26: the step that starts a walk leaves the completed set empty.
C26_WalkStartsWithNothingCompleted ==
    [][walks' # walks => completedCheckpoints' = <<>>]_vars

\* C27: the auto-play effect never speaks the chapter that was spoken last:
\* between two utterances of the same chapter the play button was pressed,
\* so one activation of a chapter is auto-played at most once.
C27_AutoPlayedOnce ==
    \A k \in 1..Len(player.spoken) - 1 :
        player.spoken[k + 1].by = "effect"
            => player.spoken[k + 1].chapter # player.spoken[k].chapter

\* C28 (first half): the completed set holds no checkpoint index twice.
C28_NoIndexTwice ==
    \A j, k \in 1..Len(completedCheckpoints) :
        completedCheckpoints[j] = completedCheckpoints[k] => j = k

\* C28: the completed set holds no index twice, and so no TripSummary -
\* the one shown on the summary screen or one handed to saveTrip - counts
\* more completed checkpoints than the walk has.
C28_CompletedWithinTotal ==
    /\ C28_NoIndexTwice
    /\ IsSome(tripData)
           => Get(tripData).checkpointsCompleted <= Get(tripData).totalCheckpoints
    /\ \A k \in 1..Len(saves) :
           saves[k].summary.checkpointsCompleted <= saves[k].summary.totalCheckpoints

\* C29: in the AudioService isPaused implies isPlaying, whatever the order
\* of speak, pause, resume, stop and the engine's events.
C29_PausedImpliesPlaying == audioService.isPaused => audioService.isPlaying

\* The planning in flight is one of the story harness whose story
\* generation is going to succeed: the cache misses, the API key is set and
\* the provider answers.
StoryGenerationSucceeds ==
    /\ IsSome(planning) /\ "lookup" \in DOMAIN Get(planning)
    /\ Get(planning).lookup.kind = "miss"
    /\ Get(planning).apiKey
    /\ Get(planning).response.kind # "error"

\* C30: the walk such a planning starts is bound to the generated story,
\* whether or not writing it to the story cache succeeded.
C30_GeneratedStorySurvivesCacheFailure ==
    [][(StoryGenerationSucceeds /\ walks' # walks) =>
          story' = Some(BoundStory(generateStory(TRUE, Get(planning).response,
                                                 checkpoints').story))]_vars
====
